---- MODULE Spec2Model ----
(***************************************************************************)
(* A model of ve_data_science_tool.  The data-directory maintenance code   *)
(* (src/ve_data_science_tool/data.py): the manifest loader, the directory  *)
(* validator and the manifest populator, acting on a small file system.    *)
(* The GLOBUS code (src/ve_data_science_tool/globus.py): the comparison of *)
(* two endpoint listings and the loop that monitors a transfer task.       *)
(***************************************************************************)
EXTENDS Integers, Sequences, FiniteSets, TLC

VARIABLES
    fs,          \* the file system: path -> [kind, content]
    target,      \* the directory the functions are called with
    last,        \* the outcome of the last call (return value, exception, log)
    endpoints,   \* what the listing of the remote and of the local endpoint return
    sync_status, \* what get_sync_status returned
    task,        \* the transfer task, as the transfer service holds it
    xfer,        \* globus_transfer: where it is, its local variables, its outcome
    api,         \* how many calls of each transfer API function were made
    gsync,       \* globus_sync: the pass it is in, the passes made, its outcome
    ls,          \* recursive_ls: its queue, the listing calls made, the items yielded
    cli          \* ve_data_science_tool_cli: what it was asked and what it returned

dataVars == <<fs, target, last>>

syncVars == <<endpoints, sync_status>>

transferVars == <<task, xfer, api>>

callVars == <<gsync, ls, cli>>

vars == <<fs, target, last, endpoints, sync_status, task, xfer, api, gsync, ls, cli>>

(***************************************************************************)
(* Bounds of the model.                                                    *)
(***************************************************************************)
\* longest `files` list of a manifest that exists before the first call
MaxEntries == 2

(***************************************************************************)
(* Values.                                                                 *)
(***************************************************************************)
\* Python None, YAML null
None == "None"

ManifestName == "MANIFEST.yaml"

\* names for which str.startswith(".") is true
HiddenNames == {".hid"}

startswith_dot(name) == name \in HiddenNames

(***************************************************************************)
(* Paths.  A path is the sequence of its segments.                         *)
(***************************************************************************)
IsPrefix(p, q) == Len(p) <= Len(q) /\ SubSeq(q, 1, Len(p)) = p

Parent(p) == SubSeq(p, 1, Len(p) - 1)

Name(p) == p[Len(p)]

\* config.repository_path
RepoRoot == <<"repo">>

DataDir == <<"repo", "data">>

\* the data directory whose content varies
DirA == <<"repo", "data", "a">>

\* a path inside the repository at which nothing exists
GoneDir == <<"repo", "data", "gone">>

\* a path inside the repository that is a regular file
FilePath == <<"repo", "data", "notes.txt">>

\* a symbolic link inside the repository to a directory outside it
LinkDir == <<"repo", "data", "link">>

\* paths outside the repository: a directory, nothing, a regular file
OutDir == <<"elsewhere", "d">>

OutGone == <<"elsewhere", "gone">>

OutFile == <<"elsewhere", "f.txt">>

\* Path.resolve(): symbolic links are followed
Resolve(p) ==
    IF IsPrefix(LinkDir, p)
    THEN OutDir \o SubSeq(p, Len(LinkDir) + 1, Len(p))
    ELSE p

\* a relative path that is computed without the containment check
relative_to_unchecked(p, root) ==
    [raised |-> None,
     path |-> IF IsPrefix(root, p) THEN SubSeq(p, Len(root) + 1, Len(p)) ELSE p]

\* PurePath.relative_to(root): ValueError unless root is a prefix
relative_to(p, root) ==
    IF IsPrefix(root, p)
    THEN [raised |-> None, path |-> SubSeq(p, Len(root) + 1, Len(p))]
    ELSE [raised |-> "ValueError", path |-> <<>>]

(***************************************************************************)
(* Path strings.  A string holding a path is the sequence of its tokens:   *)
(* segments and "/" separators.  str(Path) joins the segments with "/";    *)
(* Path(str) drops separators and "." segments, so that "data/a/" and      *)
(* "data/a" are the same path and different strings.                       *)
(***************************************************************************)
RECURSIVE PathStr(_)
PathStr(parts) ==
    IF Len(parts) = 0 THEN <<>>
    ELSE IF Len(parts) = 1 THEN parts
    ELSE <<Head(parts), "/">> \o PathStr(Tail(parts))

PathOf(str) == SelectSeq(str, LAMBDA t : t \notin {"/", "."})

(***************************************************************************)
(* The file system.                                                        *)
(***************************************************************************)
NoContent == [yaml |-> "none"]

MissingNode == [kind |-> "missing", content |-> NoContent]

FileNode == [kind |-> "file", content |-> NoContent]

DirNode == [kind |-> "dir", content |-> NoContent]

\* neither a regular file nor a directory: a broken symbolic link, a FIFO
OtherNode == [kind |-> "other", content |-> NoContent]

Node(f, p) == IF p \in DOMAIN f THEN f[p] ELSE MissingNode

exists(f, p) == Node(f, p).kind # "missing"

is_dir(f, p) == Node(f, p).kind = "dir"

is_file(f, p) == Node(f, p).kind = "file"

\* Path.iterdir() and Path.glob("*"): the entries of a directory
iterdir(f, d) ==
    IF is_dir(f, d)
    THEN {p \in DOMAIN f : Len(p) > 0 /\ Parent(p) = d /\ exists(f, p)}
    ELSE {}

(***************************************************************************)
(* Manifests.  A YAML file is either text that yaml.safe_load rejects or   *)
(* text that parses to a mapping; a mapping is a function from its keys,   *)
(* and a key that is not written is not in its domain.                     *)
(***************************************************************************)
ManifestFileKeys == {"name", "url", "script", "md5"}

ManifestKeys == {"directory", "files"}

\* strings the marshmallow Url field accepts
ValidUrls == {"https://example.org"}

Get(mapping, key) == IF key \in DOMAIN mapping THEN mapping[key] ELSE None

\* a schema that also requires exactly one of url and script
ManifestFile_valid_provenance(e) ==
    /\ DOMAIN e \subseteq ManifestFileKeys
    /\ "name" \in DOMAIN e
    /\ e.name # None
    /\ Get(e, "url") = None \/ Get(e, "url") \in ValidUrls
    /\ (Get(e, "url") = None) # (Get(e, "script") = None)

\* ManifestFile.Schema().load: unknown keys are rejected, name is required
\* and not null, url is null or a valid URL, missing optional keys are None
ManifestFile_valid(e) ==
    /\ DOMAIN e \subseteq ManifestFileKeys
    /\ "name" \in DOMAIN e
    /\ e.name # None
    /\ Get(e, "url") = None \/ Get(e, "url") \in ValidUrls

ManifestFile_load(e) ==
    [name |-> e.name, url |-> Get(e, "url"),
     script |-> Get(e, "script"), md5 |-> Get(e, "md5")]

\* ManifestFile(name=...): the optional fields default to None
ManifestFile(name) ==
    [name |-> name, url |-> None, script |-> None, md5 |-> None]

\* Manifest.Schema().load
Manifest_valid(data) ==
    /\ DOMAIN data \subseteq ManifestKeys
    /\ "directory" \in DOMAIN data
    /\ "files" \in DOMAIN data
    /\ \A i \in DOMAIN data.files : ManifestFile_valid(data.files[i])

Manifest_load(data) ==
    [directory |-> data.directory,
     files |-> [i \in DOMAIN data.files |-> ManifestFile_load(data.files[i])]]

\* Manifest.Schema().dump: every field is written, None as null
Manifest_dump(manifest) ==
    [directory |-> manifest.directory,
     files |-> [i \in DOMAIN manifest.files |->
                 [name |-> manifest.files[i].name,
                  url |-> manifest.files[i].url,
                  script |-> manifest.files[i].script,
                  md5 |-> manifest.files[i].md5]]]

\* yaml.safe_dump: the text of a mapping
safe_dump(data) == [yaml |-> "ok", data |-> data]

\* text that is not YAML
InvalidYaml == [yaml |-> "invalid"]

EmptyManifest == [directory |-> <<>>, files |-> <<>>]

load_manifest(f, file) ==
    LET text == Node(f, file).content IN
    IF text.yaml # "ok"
    THEN [raised |-> "YAMLError", manifest |-> EmptyManifest]
    ELSE IF ~Manifest_valid(text.data)
    THEN [raised |-> "ValidationError", manifest |-> EmptyManifest]
    ELSE [raised |-> None, manifest |-> Manifest_load(text.data)]

(***************************************************************************)
(* Log records and call outcomes.                                          *)
(***************************************************************************)
\* one LOGGER call: its level, which message, and what the message names
LogRecord(level, msg, names, text) ==
    [level |-> level, msg |-> msg, names |-> names, text |-> text]

Error(msg) == LogRecord("ERROR", msg, {}, <<>>)

Info(msg) == LogRecord("INFO", msg, {}, <<>>)

\* the outcome of check_data_directory: the returned value, the LOGGER
\* calls in order, and the steps of the function that were evaluated
CheckResult(ret, log, trace) == [ret |-> ret, log |-> log, trace |-> trace]

(***************************************************************************)
(* check_data_directory.                                                   *)
(***************************************************************************)
\* the directory's files as a set of names
actual_files_of(f, directory) ==
    {Name(p) : p \in {q \in iterdir(f, directory) :
                        /\ ~startswith_dot(Name(q))
                        /\ is_file(f, q)
                        /\ Name(q) # ManifestName}}

\* the file-set check with the second difference reported only when the
\* first is empty
files_errors_elif(manifest_files, actual_files) ==
    LET only_in_manifest == manifest_files \ actual_files
        only_in_directory == actual_files \ manifest_files
    IN  IF only_in_manifest # {}
        THEN <<LogRecord("ERROR", "Unknown files in manifest",
                         only_in_manifest, <<>>)>>
        ELSE IF only_in_directory # {}
        THEN <<LogRecord("ERROR", "Files missing from manifest",
                         only_in_directory, <<>>)>>
        ELSE <<>>

\* the directory check: the manifest's directory against the location
directory_errors(directory_relative, manifest) ==
    IF directory_relative # PathOf(manifest.directory)
    THEN <<LogRecord("ERROR", "directory does not match location",
                     {}, manifest.directory)>>
    ELSE <<>>

\* the file-set check: manifest names against actual files
files_errors(manifest_files, actual_files) ==
    LET only_in_manifest == manifest_files \ actual_files
        only_in_directory == actual_files \ manifest_files
    IN  IF manifest_files # actual_files
        THEN (IF only_in_manifest # {}
              THEN <<LogRecord("ERROR", "Unknown files in manifest",
                               only_in_manifest, <<>>)>>
              ELSE <<>>)
             \o
             (IF only_in_directory # {}
              THEN <<LogRecord("ERROR", "Files missing from manifest",
                               only_in_directory, <<>>)>>
              ELSE <<>>)
        ELSE <<>>

\* the provenance check stopping at the first violation
provenance_errors_first(files) ==
    LET bad == SelectSeq(files, LAMBDA e : (e.url = None) = (e.script = None))
    IN  IF bad = <<>> THEN <<>>
        ELSE <<LogRecord("ERROR", "File does not provide _one_ of url or script",
                         {Head(bad).name}, <<>>)>>

\* not (file.url is None) ^ (file.script is None)
provenance_violated(file) == (file.url = None) = (file.script = None)

\* the provenance check: one error for each entry that violates it
RECURSIVE provenance_errors(_)
provenance_errors(files) ==
    IF files = <<>> THEN <<>>
    ELSE (IF provenance_violated(Head(files))
          THEN <<LogRecord("ERROR", "File does not provide _one_ of url or script",
                           {Head(files).name}, <<>>)>>
          ELSE <<>>)
         \o provenance_errors(Tail(files))

\* the content checks returning at the first check that fails
check_contents_short_circuit(directory_relative, manifest, actual_files, log, trace) ==
    LET manifest_files == {manifest.files[i].name : i \in DOMAIN manifest.files}
        dir_errors == directory_errors(directory_relative, manifest)
        set_errors == files_errors(manifest_files, actual_files)
        prov_errors == provenance_errors(manifest.files)
    IN  IF dir_errors # <<>>
        THEN CheckResult(FALSE,
                 log \o <<Error("Manifest contains errors")>> \o dir_errors,
                 trace \o <<"directory">>)
        ELSE IF set_errors # <<>>
        THEN CheckResult(FALSE,
                 log \o <<Error("Manifest contains errors")>> \o set_errors,
                 trace \o <<"directory", "files">>)
        ELSE IF prov_errors # <<>>
        THEN CheckResult(FALSE,
                 log \o <<Error("Manifest contains errors")>> \o prov_errors,
                 trace \o <<"directory", "files", "provenance">>)
        ELSE CheckResult(TRUE, log \o <<Info("Valid manifest")>>,
                 trace \o <<"directory", "files", "provenance">>)

\* the three content checks on a loaded manifest
check_contents(directory_relative, manifest, actual_files, log, trace) ==
    LET manifest_files == {manifest.files[i].name : i \in DOMAIN manifest.files}
        return_value ==
            /\ directory_relative = PathOf(manifest.directory)
            /\ manifest_files = actual_files
            /\ \A i \in DOMAIN manifest.files :
                  ~provenance_violated(manifest.files[i])
        logged_errors ==
            directory_errors(directory_relative, manifest)
            \o files_errors(manifest_files, actual_files)
            \o provenance_errors(manifest.files)
    IN  CheckResult(
            return_value,
            log \o (IF return_value
                    THEN <<Info("Valid manifest")>>
                    ELSE <<Error("Manifest contains errors")>> \o logged_errors),
            trace \o <<"directory", "files", "provenance">>)

\* the presence check without the test for a missing manifest
manifest_presence_no_missing_test(actual_files, manifest_exists) ==
    IF actual_files = {} /\ manifest_exists
    THEN "MANIFEST.yaml file in empty directory"
    ELSE IF actual_files = {} /\ ~manifest_exists
    THEN "Directory empty: no manifest required"
    ELSE "load"

\* the presence check without the test for a manifest in an empty directory
manifest_presence_no_empty_test(actual_files, manifest_exists) ==
    IF actual_files # {} /\ ~manifest_exists
    THEN "MANIFEST.yaml not found"
    ELSE IF actual_files = {} /\ ~manifest_exists
    THEN "Directory empty: no manifest required"
    ELSE "load"

\* what the presence of files and of the manifest file decides
manifest_presence(actual_files, manifest_exists) ==
    IF actual_files # {} /\ ~manifest_exists
    THEN "MANIFEST.yaml not found"
    ELSE IF actual_files = {} /\ manifest_exists
    THEN "MANIFEST.yaml file in empty directory"
    ELSE IF actual_files = {} /\ ~manifest_exists
    THEN "Directory empty: no manifest required"
    ELSE "load"

\* check_data_directory once the directory is known to exist
check_existing_directory(f, directory, directory_relative, log, trace) ==
    LET actual_files == actual_files_of(f, directory)
        manifest_file == directory \o <<ManifestName>>
        presence == manifest_presence(actual_files, exists(f, manifest_file))
        loaded == load_manifest(f, manifest_file)
    IN  IF presence # "load"
        THEN CheckResult(presence = "Directory empty: no manifest required",
                         log \o <<Error(presence)>>, trace \o <<"iterdir">>)
        ELSE IF loaded.raised = "YAMLError"
        THEN CheckResult(FALSE,
                         log \o <<Error("Cannot parse MANIFEST.yaml"),
                                  Error("YAMLError")>>,
                         trace \o <<"iterdir", "load">>)
        ELSE IF loaded.raised = "ValidationError"
        THEN CheckResult(FALSE,
                         log \o <<Error("MANIFEST.yaml structure incorrect"),
                                  Error("ValidationError messages")>>,
                         trace \o <<"iterdir", "load">>)
        ELSE check_contents(directory_relative, loaded.manifest, actual_files,
                            log, trace \o <<"iterdir", "load">>)

check_data_directory(f, directory) ==
    LET rel == relative_to(Resolve(directory), RepoRoot)
        log == <<Info("Checking")>>
    IN  IF rel.raised # None
        THEN CheckResult(FALSE, <<Error("not within the repo")>>, <<"scope">>)
        ELSE IF ~exists(f, directory)
        THEN CheckResult(FALSE, log \o <<Error("Directory not found")>>,
                         <<"scope", "exists">>)
        ELSE IF ~is_dir(f, directory)
        THEN CheckResult(FALSE,
                         log \o <<Error("path is a file not a directory")>>,
                         <<"scope", "exists", "is_dir">>)
        ELSE check_existing_directory(f, directory, rel.path, log,
                                      <<"scope", "exists", "is_dir">>)

(***************************************************************************)
(* populate_manifest.                                                      *)
(***************************************************************************)
\* the candidate files without the hidden-file filter
candidate_files_with_hidden(f, directory) ==
    {p \in iterdir(f, directory) : ~(is_dir(f, p) \/ Name(p) = ManifestName)}

\* the directory's entries that are neither directories nor hidden nor the
\* manifest: what the list comprehension over glob("*") keeps
candidate_files(f, directory) ==
    {p \in iterdir(f, directory) :
        ~(is_dir(f, p) \/ startswith_dot(Name(p)) \/ Name(p) = ManifestName)}

\* the orders in which glob("*") may yield a set of paths
Orders(S) ==
    {o \in [1..Cardinality(S) -> S] : \A i, j \in DOMAIN o : o[i] = o[j] => i = j}

\* write text to a file, creating it when it does not exist
write_file(f, p, text) ==
    LET node == [kind |-> "file", content |-> text]
    IN  IF p \in DOMAIN f THEN [f EXCEPT ![p] = node] ELSE (p :> node) @@ f

\* the outcome of populate_manifest: the exception raised (or None), the
\* returned status and files, and the file system it leaves
PopulateResult(raised, status, files, f) ==
    [raised |-> raised, status |-> status, files |-> files, fs |-> f]

\* every file of the directory taken as new
new_files_of_all(files, manifest) == files

\* the files of the directory that the manifest does not name, in order
new_files_of(files, manifest) ==
    LET existing_files == {manifest.files[i].name : i \in DOMAIN manifest.files}
    IN  SelectSeq(files, LAMBDA p : Name(p) \notin existing_files)

\* a creation that writes a manifest for a directory without files too
create_manifest_always(f, manifest_path, directory_relative, files) ==
    LET manifest == [directory |-> PathStr(directory_relative),
                     files |-> [i \in DOMAIN files |-> ManifestFile(Name(files[i]))]]
    IN  PopulateResult(None, "created", files,
            write_file(f, manifest_path, safe_dump(Manifest_dump(manifest))))

\* no manifest file: nothing for an empty directory, else a new manifest
create_manifest(f, manifest_path, directory_relative, files) ==
    LET manifest == [directory |-> PathStr(directory_relative),
                     files |-> [i \in DOMAIN files |-> ManifestFile(Name(files[i]))]]
    IN  IF files = <<>>
        THEN PopulateResult(None, "empty", files, f)
        ELSE PopulateResult(None, "created", files,
                 write_file(f, manifest_path, safe_dump(Manifest_dump(manifest))))

\* an update that brings the manifest in line with the directory: the
\* entries of files that are gone are dropped
update_manifest_pruning(f, manifest_path, files) ==
    LET loaded == load_manifest(f, manifest_path)
        new_files == new_files_of(files, loaded.manifest)
        present == {Name(files[i]) : i \in DOMAIN files}
        manifest == [loaded.manifest EXCEPT !.files =
                        SelectSeq(@, LAMBDA e : e.name \in present)
                        \o [i \in DOMAIN new_files |->
                                ManifestFile(Name(new_files[i]))]]
    IN  IF loaded.raised # None
        THEN PopulateResult(loaded.raised, None, <<>>, f)
        ELSE PopulateResult(None, "updated", new_files,
                 write_file(f, manifest_path, safe_dump(Manifest_dump(manifest))))

\* an update that opens the manifest for writing before it loads it: a
\* manifest that cannot be loaded is left truncated
update_manifest_truncating(f, manifest_path, files) ==
    LET loaded == load_manifest(f, manifest_path)
        new_files == new_files_of(files, loaded.manifest)
        manifest == [loaded.manifest EXCEPT !.files =
                        @ \o [i \in DOMAIN new_files |->
                                ManifestFile(Name(new_files[i]))]]
    IN  IF loaded.raised # None
        THEN PopulateResult(loaded.raised, None, <<>>,
                 write_file(f, manifest_path, [yaml |-> "none"]))
        ELSE PopulateResult(None, "updated", new_files,
                 write_file(f, manifest_path, safe_dump(Manifest_dump(manifest))))

\* a manifest file exists: load it and append the new files
update_manifest(f, manifest_path, files) ==
    LET loaded == load_manifest(f, manifest_path)
        new_files == new_files_of(files, loaded.manifest)
        manifest == [loaded.manifest EXCEPT !.files =
                        @ \o [i \in DOMAIN new_files |->
                                ManifestFile(Name(new_files[i]))]]
    IN  IF loaded.raised # None
        THEN PopulateResult(loaded.raised, None, <<>>, f)
        ELSE PopulateResult(None, "updated", new_files,
                 write_file(f, manifest_path, safe_dump(Manifest_dump(manifest))))

\* `files` is the directory's candidate files in the order glob yields them
populate_manifest(f, directory, files) ==
    LET rel == relative_to(Resolve(directory), RepoRoot)
        manifest_path == directory \o <<ManifestName>>
    IN  IF rel.raised # None
        THEN PopulateResult("ValueError", None, <<>>, f)
        ELSE IF ~exists(f, manifest_path)
        THEN create_manifest(f, manifest_path, rel.path, files)
        ELSE update_manifest(f, manifest_path, files)

(***************************************************************************)
(* The initial file systems.                                               *)
(***************************************************************************)
FileNames == {"a.csv", "b.csv"}

Urls == {None, "https://example.org"}

Scripts == {None, "script.py"}

\* the checksum recorded for a file: files fetched from a URL have one
Md5Of(url) == IF url = None THEN None ELSE "e1e72bc3"

\* the manifest entries a manifest may hold before the first call
ManifestFiles ==
    {[name |-> n, url |-> u, script |-> s, md5 |-> Md5Of(u)] :
        n \in FileNames, u \in Urls, s \in Scripts}

DirStrings == {PathStr(<<"data", "a">>), PathStr(<<"data", "b">>)}

SeqsUpTo(S, n) == UNION {[1..k -> S] : k \in 0..n}

\* manifests as populate_manifest writes them
WrittenManifests ==
    {Manifest_dump([directory |-> d, files |-> fl]) :
        d \in DirStrings, fl \in SeqsUpTo(ManifestFiles, MaxEntries)}

\* manifests as a person writes them: unset keys left out, a trailing
\* slash, and the structures the schema rejects
HandWrittenManifests ==
    {[directory |-> <<"data", "/", "a", "/">>,
      files |-> <<[name |-> "a.csv", url |-> "https://example.org",
                   md5 |-> "e1e72bc3"]>>],
     [directory |-> <<"data", "/", "a">>,
      files |-> <<[name |-> "a.csv", script |-> "script.py"],
                  [name |-> "b.csv"]>>],
     [directory |-> <<"data", "/", "a">>],
     [directory_name |-> <<"data", "/", "a">>,
      files |-> <<[name |-> "a.csv", url |-> "https://example.org"]>>],
     [directory |-> <<"data", "/", "a">>,
      files |-> <<[naem |-> "a.csv", script |-> "script.py"]>>],
     [directory |-> <<"data", "/", "a">>,
      files |-> <<[name |-> "a.csv", url |-> "not a url"]>>]}

ManifestTexts ==
    {InvalidYaml} \cup {safe_dump(d) : d \in WrittenManifests \cup HandWrittenManifests}

ManifestNodes ==
    {MissingNode} \cup {[kind |-> "file", content |-> t] : t \in ManifestTexts}

\* the part of the file system that is the same in every initial state
StaticFs ==
    (DataDir :> DirNode) @@ (DirA :> DirNode) @@ (GoneDir :> MissingNode)
    @@ (FilePath :> FileNode) @@ (LinkDir :> DirNode) @@ (OutDir :> DirNode)
    @@ (OutDir \o <<"a.csv">> :> FileNode) @@ (OutGone :> MissingNode)
    @@ (OutFile :> FileNode)

\* the content of DirA: its entries and its manifest file
DirAFs(a, b, h, s, m) ==
    (DirA \o <<"a.csv">> :> a) @@ (DirA \o <<"b.csv">> :> b)
    @@ (DirA \o <<".hid">> :> h) @@ (DirA \o <<"sub">> :> s)
    @@ (DirA \o <<ManifestName>> :> m) @@ StaticFs

\* a valid data directory
DefaultFs ==
    DirAFs(FileNode, MissingNode, MissingNode, MissingNode,
           [kind |-> "file",
            content |-> safe_dump(Manifest_dump(
                [directory |-> PathStr(<<"data", "a">>),
                 files |-> <<[name |-> "a.csv", url |-> "https://example.org",
                              script |-> None, md5 |-> None]>>]))])

\* the directories the functions are called with, other than DirA
OtherDirArgs == {GoneDir, FilePath, LinkDir, OutDir, OutGone, OutFile}

NoCall ==
    [op |-> "none", raised |-> None, ret |-> TRUE, status |-> None,
     files |-> <<>>, glob |-> <<>>, log |-> <<>>, trace |-> <<>>,
     visited |-> <<>>]

\* no listing was fetched and no comparison made
NoListings == [remote |-> {}, local |-> {}]

NoStatus ==
    [returned |-> FALSE,
     value |-> [local_only |-> <<>>, remote_only |-> <<>>, up_to_date |-> <<>>,
                remote_outdated |-> <<>>, local_outdated |-> <<>>]]

\* no transfer was submitted; `ret` is the value globus_transfer returned
\* once `pc` is "returned"
NoTask ==
    [status |-> "NONE", nice_status |-> None, is_ok |-> TRUE,
     files |-> 0, files_transferred |-> 0]

NotCalled ==
    [pc |-> "idle", task_info |-> NoTask, n_files_transferred |-> -1,
     queue_message_emitted |-> FALSE, log |-> <<>>, ret |-> TRUE,
     raised |-> None]

NoCalls ==
    [submit_transfer |-> 0, get_task |-> 0, cancel_task |-> 0,
     task_successful_transfers |-> 0, sleep |-> 0]

\* globus_sync was not called
NotSyncing ==
    [pc |-> "idle", calls |-> <<>>, results |-> <<>>, ret |-> TRUE, raised |-> None]

\* the directories of an endpoint and the names of the entries of a
\* directory; an entry is absent, a file, or one of the directories
DirIds == {"r", "s"}

EntryNames == {"a", "b"}

\* an endpoint whose directories are empty
EmptyEndpoint == [d \in DirIds |-> [n \in EntryNames |-> "absent"]]

\* recursive_ls was not called
NotListing ==
    [pc |-> "idle", endpoint |-> EmptyEndpoint, order |-> <<>>,
     max_depth |-> 0, sleep_frequency |-> 1, queue |-> <<>>,
     call_count |-> 0, sleeps |-> 0, listed |-> <<>>, yielded |-> <<>>]

\* the command line tool was not run
NotRun ==
    [pc |-> "idle", subcommand |-> None, config_file |-> "missing",
     repository_marker |-> FALSE, outcome |-> None, log |-> <<>>,
     ret |-> 0, raised |-> None]

CallsIdle ==
    /\ gsync = NotSyncing
    /\ ls = NotListing
    /\ cli = NotRun

GlobusIdle ==
    /\ endpoints = NoListings
    /\ sync_status = NoStatus
    /\ task = NoTask
    /\ xfer = NotCalled
    /\ api = NoCalls
    /\ CallsIdle

\* the call is on DirA with any content, or on another path
Init ==
    /\ \/ /\ target = DirA
          /\ \E a \in {MissingNode, FileNode, OtherNode},
                b \in {MissingNode, FileNode},
                h \in {MissingNode, FileNode},
                s \in {MissingNode, DirNode},
                m \in ManifestNodes :
                fs = DirAFs(a, b, h, s, m)
       \/ /\ target \in OtherDirArgs
          /\ fs = DefaultFs
    /\ last = NoCall
    /\ GlobusIdle

(***************************************************************************)
(* check_data.                                                             *)
(***************************************************************************)
\* [path for path in directory.rglob("*") if path.is_dir()]
rglob_dirs(f, root) ==
    {p \in DOMAIN f :
        /\ IsPrefix(root, p) /\ p # root
        /\ \A k \in Len(root)..Len(p) : is_dir(f, SubSeq(p, 1, k))}

RECURSIVE check_each(_, _)
check_each(f, directories) ==
    IF directories = <<>> THEN [log |-> <<>>, trace |-> <<>>]
    ELSE LET r == check_data_directory(f, Head(directories))
             rest == check_each(f, Tail(directories))
         IN  [log |-> r.log \o rest.log, trace |-> r.trace \o rest.trace]

\* `found` is the sub-directories in the order rglob yields them
check_data(f, root, found) ==
    LET directories == <<root>> \o found
        each == check_each(f, directories)
    IN  CheckResult(TRUE, <<Info("Checking all data directories within")>> \o each.log,
                    each.trace)

(***************************************************************************)
(* The calls.                                                              *)
(***************************************************************************)
\* a validation that tidies up: it deletes a manifest it finds in a
\* directory without files
CheckDataDirectory_tidying ==
    LET r == check_data_directory(fs, target)
        manifest_file == target \o <<ManifestName>>
        stray == /\ r.log # <<>>
                 /\ r.log[Len(r.log)].msg = "MANIFEST.yaml file in empty directory"
    IN  /\ last' = [op |-> "check_data_directory",
                    raised |-> None, ret |-> r.ret, status |-> None,
                    files |-> <<>>, glob |-> <<>>, log |-> r.log,
                    trace |-> r.trace, visited |-> <<target>>]
        /\ fs' = IF stray THEN [fs EXCEPT ![manifest_file] = MissingNode] ELSE fs
        /\ UNCHANGED <<target, syncVars, transferVars, callVars>>

CheckDataDirectory ==
    LET r == check_data_directory(fs, target)
    IN  /\ last' = [op |-> "check_data_directory",
                    raised |-> None, ret |-> r.ret, status |-> None,
                    files |-> <<>>, glob |-> <<>>, log |-> r.log,
                    trace |-> r.trace, visited |-> <<target>>]
        /\ UNCHANGED <<fs, target, syncVars, transferVars, callVars>>

CheckData ==
    \E found \in Orders(rglob_dirs(fs, target)) :
        LET r == check_data(fs, target, found)
        IN  /\ last' = [op |-> "check_data",
                        raised |-> None, ret |-> r.ret, status |-> None,
                        files |-> <<>>, glob |-> <<>>, log |-> r.log,
                        trace |-> r.trace, visited |-> <<target>> \o found]
            /\ UNCHANGED <<fs, target, syncVars, transferVars, callVars>>

PopulateManifest ==
    \E files \in Orders(candidate_files(fs, target)) :
        LET r == populate_manifest(fs, target, files)
        IN  /\ fs' = r.fs
            /\ last' = [op |-> "populate_manifest",
                        raised |-> r.raised, ret |-> TRUE, status |-> r.status,
                        files |-> r.files, glob |-> files, log |-> <<>>,
                        trace |-> <<>>, visited |-> <<target>>]
            /\ UNCHANGED <<target, syncVars, transferVars, callVars>>

Next ==
    \/ CheckDataDirectory
    \/ CheckData
    \/ PopulateManifest

Spec == Init /\ [][Next]_vars

(***************************************************************************)
(* update_manifests.                                                       *)
(***************************************************************************)
\* the message update_manifests logs for what populate_manifest returned
status_log(r) ==
    IF r.raised = "YAMLError"
    THEN <<Error("Existing manifest not valid YAML")>>
    ELSE IF r.raised = "ValidationError"
    THEN <<Error("Existing manifest contains metadata errors"),
           Error("ValidationError messages")>>
    ELSE IF r.status = "empty" THEN <<Info("Empty directory")>>
    ELSE IF r.status = "created" THEN <<Info("Manifest created")>>
    ELSE IF r.files # <<>> THEN <<Info("Manifest updated")>>
    ELSE <<Info("Manifest up to date")>>

UpdateResult(raised, f, log, visited) ==
    [raised |-> raised, fs |-> f, log |-> log, visited |-> visited]

\* the loop over the directories: the relative path is computed outside
\* the try block, so its ValueError ends the loop and the function; the
\* YAMLError and the ValidationError of populate_manifest are caught
RECURSIVE update_each(_, _, _)
update_each(f, directories, glob) ==
    IF directories = <<>> THEN UpdateResult(None, f, <<>>, <<>>)
    ELSE LET each_dir == Head(directories)
             rel == relative_to(Resolve(each_dir), RepoRoot)
             r == populate_manifest(f, each_dir, glob[each_dir])
             rest == update_each(r.fs, Tail(directories), glob)
         IN  IF rel.raised # None
             THEN UpdateResult("ValueError", f, <<>>, <<>>)
             ELSE UpdateResult(rest.raised, rest.fs,
                      <<Info("Directory")>> \o status_log(r) \o rest.log,
                      <<each_dir>> \o rest.visited)

\* `found` is the sub-directories in the order rglob yields them, `glob`
\* the candidate files of each directory in the order glob yields them;
\* `visited` is the directories populate_manifest was called on
update_manifests(f, root, found, glob) ==
    LET directories == <<root>> \o found
        each == update_each(f, directories, glob)
    IN  UpdateResult(each.raised, each.fs,
            <<Info("Checking all data directories within")>> \o each.log,
            each.visited)

\* the orders in which glob may yield the candidate files of each directory
GlobOrders(f, dirs) ==
    {g \in [dirs -> UNION {Orders(candidate_files(f, d)) : d \in dirs}] :
        \A d \in dirs : g[d] \in Orders(candidate_files(f, d))}

UpdateManifests ==
    \E found \in Orders(rglob_dirs(fs, target)) :
        \E glob \in GlobOrders(fs, {target} \cup rglob_dirs(fs, target)) :
            LET r == update_manifests(fs, target, found, glob)
            IN  /\ fs' = r.fs
                /\ last' = [op |-> "update_manifests",
                            raised |-> r.raised, ret |-> TRUE, status |-> None,
                            files |-> <<>>, glob |-> <<>>, log |-> r.log,
                            trace |-> <<>>, visited |-> r.visited]
                /\ UNCHANGED <<target, syncVars, transferVars, callVars>>

(***************************************************************************)
(* A data tree that changes between the calls: the calls are made on the   *)
(* data directory or on one of its sub-directories, and between two calls  *)
(* data files appear in the sub-directory and disappear from it.           *)
(***************************************************************************)
\* the manifests the sub-directory may hold before the first call
TreeManifestNodes ==
    {MissingNode,
     [kind |-> "file", content |-> InvalidYaml],
     [kind |-> "file",
      content |-> safe_dump([directory |-> <<"data", "/", "a">>])],
     [kind |-> "file",
      content |-> safe_dump(Manifest_dump(
          [directory |-> PathStr(<<"data", "a">>),
           files |-> <<[name |-> "a.csv", url |-> "https://example.org",
                        script |-> None, md5 |-> "e1e72bc3"]>>]))],
     [kind |-> "file",
      content |-> safe_dump(Manifest_dump(
          [directory |-> PathStr(<<"data", "a">>),
           files |-> <<[name |-> "b.csv", url |-> None,
                        script |-> "script.py", md5 |-> None],
                       [name |-> "a.csv", url |-> None,
                        script |-> "script.py", md5 |-> None]>>]))]}

TreeInit ==
    /\ target \in {DataDir, DirA}
    /\ \E a \in {MissingNode, FileNode},
          b \in {MissingNode, FileNode},
          h \in {MissingNode, FileNode},
          s \in {MissingNode, DirNode},
          m \in TreeManifestNodes,
          l \in {MissingNode, DirNode} :
          fs = [DirAFs(a, b, h, s, m) EXCEPT ![LinkDir] = l]
    /\ last = NoCall
    /\ GlobusIdle

\* a data file appears in the sub-directory
AddFile ==
    \E n \in FileNames :
        /\ fs[DirA \o <<n>>].kind = "missing"
        /\ fs' = [fs EXCEPT ![DirA \o <<n>>] = FileNode]
        /\ last' = NoCall
        /\ UNCHANGED <<target, syncVars, transferVars, callVars>>

\* a data file of the sub-directory is deleted
DeleteFile ==
    \E n \in FileNames :
        /\ fs[DirA \o <<n>>].kind = "file"
        /\ fs' = [fs EXCEPT ![DirA \o <<n>>] = MissingNode]
        /\ last' = NoCall
        /\ UNCHANGED <<target, syncVars, transferVars, callVars>>

TreeNext ==
    \/ CheckData
    \/ PopulateManifest
    \/ UpdateManifests
    \/ AddFile
    \/ DeleteFile

SpecTree == TreeInit /\ [][TreeNext]_vars

(***************************************************************************)
(* get_sync_status.  A listing is the set of entries that globus_ls        *)
(* returns for an endpoint: the name is a path string, the type is "file"  *)
(* or "dir", last_modified is an ISO 8601 string, held as the wall clock   *)
(* reading and the UTC offset it states.                                   *)
(***************************************************************************)
MaxClock == 2

\* the path strings of a listing, in lexicographic order
ListedNames == <<<<"d">>, <<"d", "/", "g.csv">>, <<"f.csv">>>>

IsoTimes == [clock : 1..MaxClock, utcoffset : {0, 1}]

\* datetime.fromisoformat: the instant an ISO string names
fromisoformat(t) == t.clock - t.utcoffset

\* the listing of the remote endpoint, or of the local one
globus_ls(remote) == IF remote THEN endpoints.remote ELSE endpoints.local

\* a reduction that keeps the directory entries
file_times_with_dirs(listing) ==
    [p \in {PathOf(f.name) : f \in listing} |->
        fromisoformat((CHOOSE f \in listing : PathOf(f.name) = p).last_modified)]

\* {Path(f["name"]): datetime.fromisoformat(f["last_modified"])
\*  for f in listing if f["type"] == "file"}
file_times(listing) ==
    [p \in {PathOf(f.name) : f \in {g \in listing : g.type = "file"}} |->
        fromisoformat((CHOOSE f \in listing :
                          f.type = "file" /\ PathOf(f.name) = p).last_modified)]

\* the difference taken the other way round
difference_reversed(names, other) == DOMAIN other \ DOMAIN names

\* set(names).difference(other)
difference(names, other) == DOMAIN names \ DOMAIN other

\* sorted([str(file) for file in files])
sorted(files) ==
    SelectSeq(ListedNames, LAMBDA n : n \in {PathStr(file) : file \in files})

\* remote_names is built from the listing of the local endpoint and
\* local_names from the listing of the remote endpoint
get_sync_status ==
    LET remote == globus_ls(TRUE)
        local == globus_ls(FALSE)
        remote_names == file_times(local)
        local_names == file_times(remote)
        both_endpoints == DOMAIN remote_names \cap DOMAIN local_names
        local_only == difference(remote_names, local_names)
        remote_only == difference(local_names, remote_names)
        rd(file) == remote_names[file]
        ld(file) == local_names[file]
    IN  [local_only |-> sorted(local_only),
         remote_only |-> sorted(remote_only),
         up_to_date |-> sorted({f \in both_endpoints : rd(f) = ld(f)}),
         remote_outdated |-> sorted({f \in both_endpoints : rd(f) < ld(f)}),
         local_outdated |-> sorted({f \in both_endpoints : rd(f) > ld(f)})]

\* what an endpoint may list under a name: nothing, a directory, a file
EntriesOf(name, types, times) ==
    {{}} \cup {{[name |-> name, type |-> "dir", last_modified |-> t]} :
                  t \in IF "dir" \in types THEN times ELSE {}}
         \cup {{[name |-> name, type |-> "file", last_modified |-> t]} :
                  t \in IF "file" \in types THEN times ELSE {}}

\* d is a directory, or a file on one endpoint and a directory on the
\* other; d/g.csv and f.csv are files
Listings ==
    {d \cup g \cup f :
        d \in EntriesOf(ListedNames[1], {"dir", "file"}, {[clock |-> 1, utcoffset |-> 0]}),
        g \in EntriesOf(ListedNames[2], {"file"}, IsoTimes),
        f \in EntriesOf(ListedNames[3], {"file"}, IsoTimes)}

SyncInit ==
    /\ endpoints \in [remote : Listings, local : Listings]
    /\ sync_status = NoStatus
    /\ fs = DefaultFs
    /\ target = DirA
    /\ last = NoCall
    /\ task = NoTask
    /\ xfer = NotCalled
    /\ api = NoCalls
    /\ CallsIdle

GetSyncStatus ==
    /\ sync_status' = [returned |-> TRUE, value |-> get_sync_status]
    /\ UNCHANGED <<endpoints, dataVars, transferVars, callVars>>

SyncNext == GetSyncStatus

SpecSync == SyncInit /\ [][SyncNext]_vars

(***************************************************************************)
(* globus_transfer.  The transfer service holds the task and moves it on   *)
(* between the calls of the function; the function submits the task, polls *)
(* it with get_task, sleeps between two polls and, when the task has       *)
(* succeeded, lists the successful transfers.  Each call of the transfer   *)
(* API either answers or fails with TransferAPIError.                      *)
(***************************************************************************)
MaxFiles == 2

MaxCalls == 3

\* one more call counted; the count stops at MaxCalls
Counted(calls, name) ==
    [calls EXCEPT ![name] = IF @ < MaxCalls THEN @ + 1 ELSE @]

\* the task as submit_transfer leaves it: queued, its files not yet counted
QueuedTask ==
    [status |-> "ACTIVE", nice_status |-> "Queued", is_ok |-> TRUE,
     files |-> 0, files_transferred |-> 0]

\* an error test that takes every status other than OK for a fault
has_error_unless_ok(task_info) == task_info.nice_status # "OK"

\* (task_info["status"] == "ACTIVE") & (not task_info["is_ok"])
has_error(task_info) == task_info.status = "ACTIVE" /\ ~task_info.is_ok

Logged(x, msg) == [x EXCEPT !.log = Append(@, msg)]

\* if task_info["nice_status"] == "Queued": the message is logged once
queued_message(x, task_info) ==
    IF task_info.nice_status = "Queued" /\ ~x.queue_message_emitted
    THEN [Logged(x, "Globus sync queued") EXCEPT !.queue_message_emitted = TRUE]
    ELSE x

\* if task_info["nice_status"] == "OK": progress is logged when the number
\* of files transferred has increased
progress_message(x, task_info) ==
    IF /\ task_info.nice_status = "OK"
       /\ x.n_files_transferred < task_info.files_transferred
    THEN [Logged(x, "Globus sync active") EXCEPT
             !.n_files_transferred = task_info.files_transferred]
    ELSE x

\* a loop that ends as soon as the task is no longer ACTIVE
monitor_until_inactive(x, task_info) ==
    LET reported == progress_message(queued_message(x, task_info), task_info)
    IN  IF task_info.status # "ACTIVE"
        THEN [Logged(reported, "Globus sync complete") EXCEPT !.pc = "report"]
        ELSE [reported EXCEPT !.pc = "sleep"]

\* the rest of an iteration for a task without an error: the loop ends
\* when the status is SUCCEEDED, for any other status the function sleeps
monitor(x, task_info) ==
    LET reported == progress_message(queued_message(x, task_info), task_info)
    IN  IF task_info.status = "SUCCEEDED"
        THEN [Logged(reported, "Globus sync complete") EXCEPT !.pc = "report"]
        ELSE [reported EXCEPT !.pc = "sleep"]

\* a handler that submits the transfer again after the error
api_error_retrying(x) == [x EXCEPT !.pc = "submit"]

\* except TransferAPIError: raise RuntimeError
api_error(x) == [x EXCEPT !.pc = "raised", !.raised = "RuntimeError"]

TransferInit ==
    /\ task = NoTask
    /\ xfer = [NotCalled EXCEPT !.pc = "submit"]
    /\ api = NoCalls
    /\ fs = DefaultFs
    /\ target = DirA
    /\ last = NoCall
    /\ endpoints = NoListings
    /\ sync_status = NoStatus
    /\ CallsIdle

\* transfer_client.submit_transfer(tdata) and the set-up of the loop
Submit ==
    /\ xfer.pc = "submit"
    /\ api' = Counted(api, "submit_transfer")
    /\ \/ /\ task' = QueuedTask
          /\ xfer' = [xfer EXCEPT !.pc = "poll"]
       \/ /\ xfer' = api_error(xfer)
          /\ UNCHANGED task
    /\ UNCHANGED <<dataVars, syncVars, callVars>>

\* one iteration of the loop up to its sleep: get_task, then the
\* cancellation of a task with an error, or the messages and the test
\* for success
Poll ==
    /\ xfer.pc = "poll"
    /\ \/ /\ api' = Counted(api, "get_task")
          /\ xfer' = api_error(xfer)
          /\ UNCHANGED task
       \/ /\ has_error(task)
          /\ api' = Counted(Counted(api, "get_task"), "cancel_task")
          /\ \/ /\ xfer' = [Logged(Logged([xfer EXCEPT !.task_info = task],
                                  "Globus sync error"), "Globus sync cancelled")
                              EXCEPT !.pc = "returned", !.ret = FALSE]
                /\ task' = [task EXCEPT !.status = "FAILED", !.nice_status = None]
             \/ /\ xfer' = api_error(Logged([xfer EXCEPT !.task_info = task],
                                  "Globus sync error"))
                /\ UNCHANGED task
       \/ /\ ~has_error(task)
          /\ api' = Counted(api, "get_task")
          /\ xfer' = monitor([xfer EXCEPT !.task_info = task], task)
          /\ UNCHANGED task
    /\ UNCHANGED <<dataVars, syncVars, callVars>>

\* time.sleep(interval)
Sleep ==
    /\ xfer.pc = "sleep"
    /\ xfer' = [xfer EXCEPT !.pc = "poll"]
    /\ api' = Counted(api, "sleep")
    /\ UNCHANGED <<task, dataVars, syncVars, callVars>>

\* after the loop: task_successful_transfers is called outside the try
\* block; sorted() of the DATA list compares its items, which are
\* dictionaries, so a list of two or more raises TypeError
Report ==
    /\ xfer.pc = "report"
    /\ api' = Counted(api, "task_successful_transfers")
    /\ \/ xfer' = [xfer EXCEPT !.pc = "raised", !.raised = "TransferAPIError"]
       \/ /\ task.files_transferred = 0
          /\ xfer' = [xfer EXCEPT !.pc = "returned", !.ret = TRUE]
       \/ /\ task.files_transferred = 1
          /\ xfer' = [Logged(xfer, "Files transferred") EXCEPT
                         !.pc = "returned", !.ret = TRUE]
       \/ /\ task.files_transferred > 1
          /\ xfer' = [Logged(xfer, "Files transferred") EXCEPT
                         !.pc = "raised", !.raised = "TypeError"]
    /\ UNCHANGED <<task, dataVars, syncVars, callVars>>

\* the transfer service: a queued task starts and its files are counted
TaskStarts ==
    /\ task.status = "ACTIVE" /\ task.nice_status = "Queued" /\ task.is_ok
    /\ \E n \in 0..MaxFiles :
          task' = [task EXCEPT !.nice_status = "OK", !.files = n]
    /\ UNCHANGED <<xfer, api, dataVars, syncVars, callVars>>

\* one more file is transferred
TaskProgresses ==
    /\ task.status = "ACTIVE" /\ task.nice_status = "OK"
    /\ task.files_transferred < task.files
    /\ task' = [task EXCEPT !.files_transferred = @ + 1]
    /\ UNCHANGED <<xfer, api, dataVars, syncVars, callVars>>

\* the task meets a fault: it stays ACTIVE and is no longer ok
TaskFaults ==
    /\ task.status = "ACTIVE" /\ task.is_ok
    /\ task' = [task EXCEPT !.is_ok = FALSE, !.nice_status = "PERMISSION_DENIED"]
    /\ UNCHANGED <<xfer, api, dataVars, syncVars, callVars>>

\* the fault clears and the task goes on
TaskRecovers ==
    /\ task.status = "ACTIVE" /\ ~task.is_ok
    /\ task' = [task EXCEPT !.is_ok = TRUE, !.nice_status = "OK"]
    /\ UNCHANGED <<xfer, api, dataVars, syncVars, callVars>>

\* every file is transferred
TaskSucceeds ==
    /\ task.status = "ACTIVE" /\ task.nice_status = "OK"
    /\ task.files_transferred = task.files
    /\ task' = [task EXCEPT !.status = "SUCCEEDED", !.nice_status = None]
    /\ UNCHANGED <<xfer, api, dataVars, syncVars, callVars>>

\* the service gives the task up: its deadline has passed
TaskFails ==
    /\ task.status = "ACTIVE"
    /\ task' = [task EXCEPT !.status = "FAILED", !.nice_status = None]
    /\ UNCHANGED <<xfer, api, dataVars, syncVars, callVars>>

TransferNext ==
    \/ Submit
    \/ Poll
    \/ Sleep
    \/ Report
    \/ TaskStarts
    \/ TaskProgresses
    \/ TaskFaults
    \/ TaskRecovers
    \/ TaskSucceeds
    \/ TaskFails

SpecTransfer == TransferInit /\ [][TransferNext]_vars

\* the function is a sequential program that keeps running, and
\* time.sleep returns: each of its steps is taken once it is due
SpecTransferFair ==
    /\ TransferInit
    /\ [][TransferNext]_vars
    /\ WF_vars(Submit)
    /\ WF_vars(Poll)
    /\ WF_vars(Sleep)
    /\ WF_vars(Report)

(***************************************************************************)
(* globus_sync: the transfer from the remote to the local endpoint, then   *)
(* the transfer from the local to the remote endpoint.  `calls` is the     *)
(* calls of globus_transfer made, `results` the values they returned.      *)
(***************************************************************************)
\* a caller that goes on whatever the pass returned
gives_up_never(success) == FALSE

\* if not local_from_remote_success: ... return False, and the same test
\* on remote_from_local_success
gives_up(success) == ~success

\* a call of globus_transfer begins
TransferCalled == [NotCalled EXCEPT !.pc = "submit"]

GlobusSyncInit ==
    /\ gsync = [NotSyncing EXCEPT !.pc = "authenticate"]
    /\ task = NoTask
    /\ xfer = NotCalled
    /\ api = NoCalls
    /\ ls = NotListing
    /\ cli = NotRun
    /\ fs = DefaultFs
    /\ target = DirA
    /\ last = NoCall
    /\ endpoints = NoListings
    /\ sync_status = NoStatus

\* get_authenticated_transfer_client returns the client or raises; with
\* the client the first pass is called
Authenticate ==
    /\ gsync.pc = "authenticate"
    /\ \/ /\ gsync' = [gsync EXCEPT !.pc = "remote_to_local",
                                     !.calls = Append(@, "remote_to_local")]
          /\ xfer' = TransferCalled
       \/ /\ \E e \in {"RuntimeError", "TransferAPIError"} :
                gsync' = [gsync EXCEPT !.pc = "raised", !.raised = e]
          /\ UNCHANGED xfer
    /\ UNCHANGED <<task, api, ls, cli, dataVars, syncVars>>

\* the first call of globus_transfer has ended: its exception goes to the
\* caller of globus_sync, False ends globus_sync with False, and after
\* True the second pass is called
FirstPassEnds ==
    /\ gsync.pc = "remote_to_local"
    /\ xfer.pc \in {"returned", "raised"}
    /\ IF xfer.pc = "raised"
       THEN /\ gsync' = [gsync EXCEPT !.pc = "raised", !.raised = xfer.raised]
            /\ UNCHANGED <<task, xfer>>
       ELSE IF gives_up(xfer.ret)
       THEN /\ gsync' = [gsync EXCEPT !.pc = "returned", !.ret = FALSE,
                                      !.results = Append(@, xfer.ret)]
            /\ UNCHANGED <<task, xfer>>
       ELSE /\ gsync' = [gsync EXCEPT !.pc = "local_to_remote",
                                      !.results = Append(@, xfer.ret),
                                      !.calls = Append(@, "local_to_remote")]
            /\ xfer' = TransferCalled
            /\ task' = NoTask
    /\ UNCHANGED <<api, ls, cli, dataVars, syncVars>>

\* the second call of globus_transfer has ended
SecondPassEnds ==
    /\ gsync.pc = "local_to_remote"
    /\ xfer.pc \in {"returned", "raised"}
    /\ IF xfer.pc = "raised"
       THEN gsync' = [gsync EXCEPT !.pc = "raised", !.raised = xfer.raised]
       ELSE gsync' = [gsync EXCEPT !.pc = "returned",
                                  !.ret = ~gives_up(xfer.ret),
                                  !.results = Append(@, xfer.ret)]
    /\ UNCHANGED <<task, xfer, api, ls, cli, dataVars, syncVars>>

GlobusSyncNext ==
    \/ Authenticate
    \/ FirstPassEnds
    \/ SecondPassEnds
    \/ Submit
    \/ Poll
    \/ Sleep
    \/ Report
    \/ TaskStarts
    \/ TaskProgresses
    \/ TaskFaults
    \/ TaskRecovers
    \/ TaskSucceeds
    \/ TaskFails

SpecGlobusSync == GlobusSyncInit /\ [][GlobusSyncNext]_vars

(***************************************************************************)
(* recursive_ls.  The endpoint is a set of directories whose entries are   *)
(* files or directories of the set, so that an entry may lead back to a    *)
(* directory above it; the `order` is the order in which the endpoint      *)
(* lists the entries of a directory.  A path is the sequence of the pieces *)
(* of the string: names and "/".                                           *)
(***************************************************************************)
MaxDepth == 2

\* sleep_frequency: int = 10
sleep_frequency == 10

SleepFrequencies == {2, sleep_frequency}

\* path = "ve_data_science/data"
ListedRoot == <<"ve_data_science/data">>

Endpoints == [DirIds -> [EntryNames -> {"absent", "file"} \cup DirIds]]

Orders2 == {<<"a", "b">>, <<"b", "a">>}

\* the names of a path below the listed root
NamesOf(path) == SelectSeq(Tail(path), LAMBDA t : t # "/")

\* what the names lead to from the root directory of the endpoint
RECURSIVE Lookup(_, _)
Lookup(endpoint, names) ==
    IF names = <<>> THEN "r"
    ELSE LET parent == Lookup(endpoint, SubSeq(names, 1, Len(names) - 1))
         IN  IF parent \in DirIds
             THEN endpoint[parent][names[Len(names)]]
             ELSE "absent"

\* transfer_client.operation_ls: the path of the directory, which ends
\* with "/", and its entries in the order of the endpoint
operation_ls(endpoint, order, abs_path) ==
    LET dir == Lookup(endpoint, NamesOf(abs_path))
        present == SelectSeq(order, LAMBDA n : endpoint[dir][n] # "absent")
    IN  [path |-> IF abs_path[Len(abs_path)] = "/" THEN abs_path
                  ELSE abs_path \o <<"/">>,
         DATA |-> [i \in 1..Len(present) |->
                     [name |-> <<present[i]>>,
                      type |-> IF endpoint[dir][present[i]] = "file"
                               THEN "file" ELSE "dir"]]]

\* a prefix without the separator
path_prefix_bare(rel_path) == rel_path

\* path_prefix = rel_path + "/" if rel_path else ""
path_prefix(rel_path) ==
    IF rel_path # <<>> THEN rel_path \o <<"/">> ELSE <<>>

\* a test that lets the deepest listed directories be expanded too
may_descend_one_more(depth, max_depth) == depth <= max_depth

\* if depth < max_depth
may_descend(depth, max_depth) == depth < max_depth

\* the tuples of queue.extend: the directories of the listing
queued_dirs(res, prefix, depth) ==
    LET dirs == SelectSeq(res.DATA, LAMBDA item : item.type = "dir")
    IN  [i \in 1..Len(dirs) |->
           [abs_path |-> res.path \o dirs[i].name,
            rel_path |-> prefix \o dirs[i].name,
            depth |-> depth + 1]]

\* item["name"] = path_prefix + item["name"]; yield item
yielded_items(res, prefix) ==
    [i \in 1..Len(res.DATA) |->
       [res.DATA[i] EXCEPT !.name = prefix \o @]]

LsInit ==
    /\ \E e \in Endpoints, o \in Orders2, d \in 0..MaxDepth,
          f \in SleepFrequencies :
          ls = [NotListing EXCEPT !.pc = "called", !.endpoint = e,
                                  !.order = o, !.max_depth = d,
                                  !.sleep_frequency = f]
    /\ gsync = NotSyncing
    /\ cli = NotRun
    /\ task = NoTask
    /\ xfer = NotCalled
    /\ api = NoCalls
    /\ fs = DefaultFs
    /\ target = DirA
    /\ last = NoCall
    /\ endpoints = NoListings
    /\ sync_status = NoStatus

\* recursive_ls: queue.append((path, "", 0))
RecursiveLs ==
    /\ ls.pc = "called"
    /\ ls' = [ls EXCEPT !.pc = "listing",
                        !.queue = <<[abs_path |-> ListedRoot,
                                     rel_path |-> <<>>, depth |-> 0]>>]
    /\ UNCHANGED <<gsync, cli, dataVars, syncVars, transferVars>>

\* one iteration of `while queue`: the last tuple is popped and its path
\* listed; the call is counted and every sleep_frequency-th call sleeps;
\* the directories are queued and the items yielded.  operation_ls may
\* raise, which ends the generator
ListDirectory ==
    /\ ls.pc = "listing"
    /\ ls.queue # <<>>
    /\ LET popped == ls.queue[Len(ls.queue)]
           rest == SubSeq(ls.queue, 1, Len(ls.queue) - 1)
           prefix == path_prefix(popped.rel_path)
           res == operation_ls(ls.endpoint, ls.order, popped.abs_path)
           call == [path |-> popped.abs_path, depth |-> popped.depth]
           call_count == ls.call_count + 1
       IN  \/ ls' = [ls EXCEPT
                       !.queue = IF may_descend(popped.depth, ls.max_depth)
                                 THEN rest \o queued_dirs(res, prefix, popped.depth)
                                 ELSE rest,
                       !.call_count = call_count,
                       !.sleeps = IF call_count % ls.sleep_frequency = 0
                                  THEN @ + 1 ELSE @,
                       !.listed = Append(@, call),
                       !.yielded = @ \o yielded_items(res, prefix)]
           \/ ls' = [ls EXCEPT !.pc = "raised", !.queue = rest,
                               !.listed = Append(@, call)]
    /\ UNCHANGED <<gsync, cli, dataVars, syncVars, transferVars>>

\* `while queue` ends with the empty queue
Exhausted ==
    /\ ls.pc = "listing"
    /\ ls.queue = <<>>
    /\ ls' = [ls EXCEPT !.pc = "done"]
    /\ UNCHANGED <<gsync, cli, dataVars, syncVars, transferVars>>

LsNext ==
    \/ RecursiveLs
    \/ ListDirectory
    \/ Exhausted

SpecLs == LsInit /\ [][LsNext]_vars

\* the consumer takes every item: list(file_list_generator)
SpecLsFair ==
    /\ SpecLs
    /\ WF_vars(RecursiveLs)
    /\ WF_vars(ListDirectory)
    /\ WF_vars(Exhausted)

(***************************************************************************)
(* ve_data_science_tool_cli.  The configuration file is missing, is not    *)
(* YAML, holds data that the schema refuses, or is good; the repository    *)
(* marker is the .ve_data_science entry of the working directory.  The     *)
(* `outcome` is what became of the work: the configuration was not         *)
(* created or not loaded, or the subcommand completed or raised.           *)
(***************************************************************************)
Subcommands ==
    {"scripts", "manifests", "data", "globus_sync", "globus_status", "configure"}

ConfigFiles == {"missing", "not_yaml", "invalid", "ok"}

\* the subcommands that authenticate with the transfer service, which
\* raises RuntimeError when it cannot connect
Authenticating == {"globus_sync", "globus_status"}

\* configure(): RuntimeError when the file exists or the working
\* directory is not the repository root, otherwise the file is written
configure(c) ==
    IF c.config_file # "missing" \/ ~c.repository_marker
    THEN [c EXCEPT !.raised = "RuntimeError"]
    ELSE [c EXCEPT !.config_file = "ok"]

\* load_config(): ValueError for a missing file, a YAML error and data
\* that the schema refuses
load_config(c) ==
    IF c.config_file # "ok" THEN [c EXCEPT !.raised = "ValueError"] ELSE c

\* the except clauses of the function name RuntimeError: the error is
\* logged and 0 returned; another exception leaves the function
except_RuntimeError(c, message) ==
    IF c.raised = "RuntimeError"
    THEN [c EXCEPT !.pc = "returned", !.ret = 0, !.raised = None,
                   !.log = Append(@, message)]
    ELSE [c EXCEPT !.pc = "raised"]

CliInit ==
    /\ \E sub \in Subcommands, f \in ConfigFiles, m \in BOOLEAN :
          cli = [NotRun EXCEPT !.pc = "parsed", !.subcommand = sub,
                               !.config_file = f, !.repository_marker = m]
    /\ gsync = NotSyncing
    /\ ls = NotListing
    /\ task = NoTask
    /\ xfer = NotCalled
    /\ api = NoCalls
    /\ fs = DefaultFs
    /\ target = DirA
    /\ last = NoCall
    /\ endpoints = NoListings
    /\ sync_status = NoStatus

\* if args.subcommand == "configure": configure(...); return 1, and
\* except RuntimeError: return 0
Configure ==
    /\ cli.pc = "parsed"
    /\ cli.subcommand = "configure"
    /\ LET c == configure(cli)
       IN  cli' = IF c.raised = None
                  THEN [c EXCEPT !.pc = "returned", !.ret = 1,
                                 !.outcome = "completed"]
                  ELSE except_RuntimeError(
                         [c EXCEPT !.outcome = "not_configured"],
                         "Could not create configuration")
    /\ UNCHANGED <<gsync, ls, dataVars, syncVars, transferVars>>

\* config = load_config(), and except RuntimeError: return 0
LoadConfig ==
    /\ cli.pc = "parsed"
    /\ cli.subcommand # "configure"
    /\ LET c == load_config(cli)
       IN  cli' = IF c.raised = None
                  THEN [c EXCEPT !.pc = "match"]
                  ELSE except_RuntimeError(
                         [c EXCEPT !.outcome = "not_loaded"],
                         "Could not load configuration")
    /\ UNCHANGED <<gsync, ls, dataVars, syncVars, transferVars>>

\* match args.subcommand: the function of the subcommand is called and
\* its value dropped; return 1
RunSubcommand ==
    /\ cli.pc = "match"
    /\ \/ cli' = [cli EXCEPT !.pc = "returned", !.ret = 1,
                              !.outcome = "completed"]
       \/ /\ cli.subcommand \in Authenticating
          /\ cli' = [cli EXCEPT !.pc = "raised", !.raised = "RuntimeError",
                                 !.outcome = "raised"]
    /\ UNCHANGED <<gsync, ls, dataVars, syncVars, transferVars>>

CliNext ==
    \/ Configure
    \/ LoadConfig
    \/ RunSubcommand

SpecCli == CliInit /\ [][CliNext]_vars

(***************************************************************************)
(* Properties.  The conditions below are stated on the file system itself, *)
(* not through the operators of the functions they are about.              *)
(***************************************************************************)
TargetManifest == target \o <<ManifestName>>

\* the target resolves to a path under the repository root
InRepo == IsPrefix(RepoRoot, Resolve(target))

\* the entries directly in the target directory
Entries == {p \in DOMAIN fs : Len(p) > 0 /\ Parent(p) = target /\ fs[p].kind # "missing"}

\* the names of its non-hidden, non-manifest regular files
RegularFiles ==
    {Name(p) : p \in {q \in Entries :
        fs[q].kind = "file" /\ Name(q) \notin HiddenNames \cup {ManifestName}}}

\* the names of its non-hidden, non-manifest entries that are not directories
CandidateNames ==
    {Name(p) : p \in {q \in Entries :
        fs[q].kind # "dir" /\ Name(q) \notin HiddenNames \cup {ManifestName}}}

HasManifest == TargetManifest \in DOMAIN fs /\ fs[TargetManifest].kind # "missing"

\* the manifest as load_manifest returns it
Loaded == load_manifest(fs, TargetManifest)

ManifestNamesOf(manifest) == {manifest.files[i].name : i \in DOMAIN manifest.files}

ErrorsOf(log) == SelectSeq(log, LAMBDA r : r.level = "ERROR")

MsgsOf(log) == [i \in DOMAIN log |-> log[i].msg]

WithMsg(log, msg) == SelectSeq(log, LAMBDA r : r.msg = msg)

Evaluated(step) == \E i \in DOMAIN last.trace : last.trace[i] = step

\* check_data_directory was called on an existing directory of the repository
CheckedDirectory ==
    /\ last.op = "check_data_directory"
    /\ InRepo
    /\ fs[target].kind = "dir"

\* ... and the manifest was loaded
CheckedLoaded ==
    /\ CheckedDirectory
    /\ RegularFiles # {}
    /\ HasManifest
    /\ Loaded.raised = None

DirectoryMismatch ==
    PathOf(Loaded.manifest.directory) # SubSeq(target, Len(RepoRoot) + 1, Len(target))

\* an entry with both url and script set, or neither
Incomplete(e) ==
    \/ e.url # None /\ e.script # None
    \/ e.url = None /\ e.script = None

IncompleteEntries == SelectSeq(Loaded.manifest.files, Incomplete)

MsgDirectory == "directory does not match location"

MsgUnknown == "Unknown files in manifest"

MsgMissing == "Files missing from manifest"

MsgProvenance == "File does not provide _one_ of url or script"

ContentMsgs == {MsgDirectory, MsgUnknown, MsgMissing, MsgProvenance}

\* C1: once the manifest has loaded, the directory, file-set and provenance
\* checks are all evaluated whatever the earlier ones found; the result is
\* False exactly when one of them recorded an error; a directory mismatch
\* suppresses neither the file-set errors nor the provenance errors.
C1_AllContentChecksRun ==
    CheckedLoaded =>
        /\ Evaluated("directory") /\ Evaluated("files") /\ Evaluated("provenance")
        /\ (last.ret = FALSE) <=> (\E i \in DOMAIN last.log : last.log[i].msg \in ContentMsgs)
        /\ DirectoryMismatch <=> WithMsg(last.log, MsgDirectory) # <<>>
        /\ ManifestNamesOf(Loaded.manifest) # RegularFiles
              <=> WithMsg(last.log, MsgUnknown) \o WithMsg(last.log, MsgMissing) # <<>>
        /\ IncompleteEntries # <<>> <=> WithMsg(last.log, MsgProvenance) # <<>>

C1_Witness ==
    /\ CheckedLoaded
    /\ DirectoryMismatch
    /\ ManifestNamesOf(Loaded.manifest) # RegularFiles
    /\ IncompleteEntries # <<>>
    /\ last.ret = FALSE
    /\ WithMsg(last.log, MsgDirectory) # <<>>
    /\ WithMsg(last.log, MsgMissing) # <<>>
    /\ WithMsg(last.log, MsgProvenance) # <<>>

\* C2: on a loaded manifest, "unknown files in manifest" is reported, once
\* and listing exactly the manifest names that are not actual files, when
\* that difference is not empty, and "files missing from manifest"
\* likewise for the actual files that are not manifest names; each is
\* reported whether or not the other is.
C2_FileSetDifferences ==
    CheckedLoaded =>
        LET unknown == ManifestNamesOf(Loaded.manifest) \ RegularFiles
            missing == RegularFiles \ ManifestNamesOf(Loaded.manifest)
        IN  /\ WithMsg(last.log, MsgUnknown) =
                  (IF unknown # {}
                   THEN <<LogRecord("ERROR", MsgUnknown, unknown, <<>>)>> ELSE <<>>)
            /\ WithMsg(last.log, MsgMissing) =
                  (IF missing # {}
                   THEN <<LogRecord("ERROR", MsgMissing, missing, <<>>)>> ELSE <<>>)
            /\ unknown # {} \/ missing # {} => last.ret = FALSE

\* the example: manifest {a.csv (url)} for the right directory, actual
\* files a.csv and b.csv
C2_Witness ==
    /\ CheckedLoaded
    /\ ~DirectoryMismatch
    /\ Loaded.manifest.files =
          <<[name |-> "a.csv", url |-> "https://example.org",
             script |-> None, md5 |-> "e1e72bc3"]>>
    /\ RegularFiles = {"a.csv", "b.csv"}
    /\ last.ret = FALSE
    /\ MsgsOf(ErrorsOf(last.log)) = <<"Manifest contains errors", MsgMissing>>
    /\ WithMsg(last.log, MsgMissing)[1].names = {"b.csv"}
    /\ WithMsg(last.log, MsgUnknown) = <<>>

C4_ManifestNotFound ==
    CheckedDirectory /\ RegularFiles # {} /\ ~HasManifest =>
        /\ last.ret = FALSE
        /\ MsgsOf(ErrorsOf(last.log)) = <<"MANIFEST.yaml not found">>
        /\ \A step \in {"load", "directory", "files", "provenance"} : ~Evaluated(step)

C4_Witness ==
    /\ CheckedDirectory /\ RegularFiles = {"a.csv", "b.csv"} /\ ~HasManifest
    /\ last.ret = FALSE
    /\ MsgsOf(ErrorsOf(last.log)) = <<"MANIFEST.yaml not found">>

\* C5: a directory of the repository with no regular files (whatever
\* sub-directories and hidden files it holds) and no manifest file is valid
\* and no error is recorded.
C5_EmptyDirectoryValidNoErrors ==
    CheckedDirectory /\ RegularFiles = {} /\ ~HasManifest =>
        /\ last.ret = TRUE
        /\ ErrorsOf(last.log) = <<>>

\* what the code does in that case: valid, with one record at ERROR level
C5_EmptyDirectoryValid ==
    CheckedDirectory /\ RegularFiles = {} /\ ~HasManifest =>
        /\ last.ret = TRUE
        /\ MsgsOf(ErrorsOf(last.log)) = <<"Directory empty: no manifest required">>

C7_OutOfScopeFirst ==
    last.op = "check_data_directory" /\ ~InRepo =>
        /\ last.ret = FALSE
        /\ last.raised = None
        /\ MsgsOf(last.log) = <<"not within the repo">>
        /\ last.log[1].level = "ERROR"
        /\ last.trace = <<"scope">>

\* a path outside the repository at which nothing exists
C7_Witness ==
    /\ last.op = "check_data_directory"
    /\ ~InRepo
    /\ fs[target].kind = "missing"
    /\ last.ret = FALSE
    /\ MsgsOf(last.log) = <<"not within the repo">>

\* C8: validation has no side effects.  A call of check_data_directory or
\* check_data, whatever its outcome, leaves every file and every manifest
\* as it was, and validating again gives the same result.
C8_ValidationHasNoSideEffects ==
    [][last'.op \in {"check_data_directory", "check_data"} =>
          /\ fs' = fs
          /\ last.op = last'.op => last'.ret = last.ret
          /\ last.op = "check_data_directory" /\ last'.op = "check_data_directory"
                => last' = last]_vars

\* after a validation that could not parse the manifest, the manifest is
\* still there
C8_Witness ==
    /\ last.op = "check_data_directory"
    /\ last.ret = FALSE
    /\ WithMsg(last.log, "Cannot parse MANIFEST.yaml") # <<>>
    /\ HasManifest
    /\ fs[TargetManifest].content = InvalidYaml

\* C9: populate_manifest on a directory with candidate files and no
\* manifest file returns "created" and writes a manifest that load_manifest
\* loads, whose file names are the directory's non-hidden, non-manifest
\* file names, each once, with url, script and md5 unset.
C9_CreatedManifestRoundTrip ==
    [][last'.op = "populate_manifest" /\ InRepo /\ ~HasManifest /\ CandidateNames # {} =>
          /\ last'.raised = None
          /\ last'.status = "created"
          /\ {Name(last'.files[i]) : i \in DOMAIN last'.files} = CandidateNames
          /\ Loaded'.raised = None
          /\ ManifestNamesOf(Loaded'.manifest) = CandidateNames
          /\ Len(Loaded'.manifest.files) = Cardinality(CandidateNames)
          /\ \A i \in DOMAIN Loaded'.manifest.files :
                /\ Loaded'.manifest.files[i].url = None
                /\ Loaded'.manifest.files[i].script = None
                /\ Loaded'.manifest.files[i].md5 = None
          /\ PathOf(Loaded'.manifest.directory)
                = SubSeq(target, Len(RepoRoot) + 1, Len(target))]_vars

\* a manifest created for two files beside a hidden file and a directory
C9_Witness ==
    /\ last.op = "populate_manifest"
    /\ last.status = "created"
    /\ CandidateNames = {"a.csv", "b.csv"}
    /\ fs[target \o <<".hid">>].kind = "file"
    /\ fs[target \o <<"sub">>].kind = "dir"
    /\ Loaded.raised = None
    /\ ManifestNamesOf(Loaded.manifest) = {"a.csv", "b.csv"}
    /\ Len(Loaded.manifest.files) = 2

\* C10: populate_manifest on a directory with a loadable manifest returns
\* "updated"; it appends one entry with unset url, script and md5 for each
\* candidate file the manifest does not name, in the order of discovery
\* and after the entries already there; it returns those files; and it
\* leaves the entries already there, and their order, as they were.
C10_UpdateAppendsNewFiles ==
    [][last'.op = "populate_manifest" /\ InRepo /\ HasManifest /\ Loaded.raised = None =>
          LET old == Loaded.manifest.files
              new == Loaded'.manifest.files
              added == last'.files
              oldNames == ManifestNamesOf(Loaded.manifest)
              discovered == SelectSeq(last'.glob, LAMBDA p : Name(p) \notin oldNames)
          IN  /\ last'.raised = None
              /\ last'.status = "updated"
              /\ {Name(last'.glob[i]) : i \in DOMAIN last'.glob} = CandidateNames
              /\ added = discovered
              /\ {Name(added[i]) : i \in DOMAIN added} = CandidateNames \ oldNames
              /\ Len(added) = Cardinality(CandidateNames \ oldNames)
              /\ Loaded'.raised = None
              /\ Loaded'.manifest.directory = Loaded.manifest.directory
              /\ Len(new) = Len(old) + Len(added)
              /\ SubSeq(new, 1, Len(old)) = old
              /\ \A i \in DOMAIN added :
                    new[Len(old) + i] =
                        [name |-> Name(added[i]), url |-> None,
                         script |-> None, md5 |-> None]]_vars

\* a.csv appended after an entry for b.csv that keeps its url and md5
C10_Witness ==
    /\ last.op = "populate_manifest"
    /\ last.status = "updated"
    /\ last.files = <<target \o <<"a.csv">>>>
    /\ Loaded.raised = None
    /\ Loaded.manifest.files =
          <<[name |-> "b.csv", url |-> "https://example.org",
             script |-> None, md5 |-> "e1e72bc3"],
            [name |-> "a.csv", url |-> None, script |-> None, md5 |-> None]>>

\* C11: a populate_manifest call that follows a populate_manifest call
\* which created or updated the manifest, with the directory unchanged in
\* between, returns "updated" with no added file and leaves the loaded
\* content of the manifest as the first call left it.
C11_SecondPopulateAddsNothing ==
    [][/\ last.op = "populate_manifest"
       /\ last.status \in {"created", "updated"}
       /\ last'.op = "populate_manifest"
       => /\ last'.raised = None
          /\ last'.status = "updated"
          /\ last'.files = <<>>
          /\ Loaded'.raised = None
          /\ Loaded'.manifest = Loaded.manifest]_vars

\* the second call found b.csv before a.csv and changed nothing in the
\* manifest that the first call created for a.csv and b.csv
C11_Witness ==
    /\ last.op = "populate_manifest"
    /\ last.status = "updated"
    /\ last.files = <<>>
    /\ last.glob = <<target \o <<"b.csv">>, target \o <<"a.csv">>>>
    /\ Loaded.raised = None
    /\ Loaded.manifest =
          [directory |-> PathStr(<<"data", "a">>),
           files |-> <<[name |-> "a.csv", url |-> None, script |-> None, md5 |-> None],
                       [name |-> "b.csv", url |-> None, script |-> None, md5 |-> None]>>]

\* C13: populate_manifest raises exactly when the directory is outside the
\* repository (ValueError) or its manifest file cannot be loaded (the
\* loader's YAMLError or ValidationError); whenever it raises, the file
\* system, the content of the manifest included, is what it was before
\* the call and no file is reported as added.
C13_PopulateErrorsLeaveFilesAlone ==
    [][last'.op = "populate_manifest" =>
          /\ ~InRepo => last'.raised = "ValueError"
          /\ InRepo /\ HasManifest /\ Loaded.raised # None =>
                last'.raised = Loaded.raised
          /\ InRepo /\ ~(HasManifest /\ Loaded.raised # None) => last'.raised = None
          /\ last'.raised # None => fs' = fs /\ last'.files = <<>>]_vars

\* the call failed on a manifest that is not valid YAML beside a file the
\* manifest would have gained, and the manifest is still that text
C13_Witness ==
    /\ last.op = "populate_manifest"
    /\ last.raised = "YAMLError"
    /\ CandidateNames # {}
    /\ fs[TargetManifest].content = InvalidYaml

\* the manifest files of the data tree
ManifestPaths ==
    {d \o <<ManifestName>> : d \in {DataDir, DirA, DirA \o <<"sub">>}}

\* C12: over the calls of populate_manifest and update_manifests and the
\* appearance and disappearance of data files between them, a manifest
\* that can be loaded can still be loaded after every step, its directory
\* is the same and the entries it had are the first entries it has, field
\* for field and in the same order, whether or not their files exist.
C12_ManifestAppendOnly ==
    [][\A p \in ManifestPaths :
          exists(fs, p) /\ load_manifest(fs, p).raised = None =>
              /\ exists(fs', p)
              /\ load_manifest(fs', p).raised = None
              /\ load_manifest(fs', p).manifest.directory
                    = load_manifest(fs, p).manifest.directory
              /\ IsPrefix(load_manifest(fs, p).manifest.files,
                          load_manifest(fs', p).manifest.files)]_vars

\* populate_manifest has just run on the manifest it once created for
\* a.csv and b.csv, after both files were deleted, and both entries remain
C12_Witness ==
    /\ target = DirA
    /\ last.op = "populate_manifest"
    /\ last.status = "updated"
    /\ fs[DirA \o <<"a.csv">>].kind = "missing"
    /\ fs[DirA \o <<"b.csv">>].kind = "missing"
    /\ Loaded.raised = None
    /\ ManifestNamesOf(Loaded.manifest) = {"a.csv", "b.csv"}
    /\ \A i \in DOMAIN Loaded.manifest.files :
          /\ Loaded.manifest.files[i].url = None
          /\ Loaded.manifest.files[i].script = None

\* the target and the directories below it
TreeDirs ==
    {p \in DOMAIN fs :
        /\ IsPrefix(target, p)
        /\ \A k \in Len(target)..Len(p) : k = Len(target) \/ fs[SubSeq(p, 1, k)].kind = "dir"}

\* C14: check_data and update_manifests never end early: whatever fails
\* in a directory (a manifest that is missing, unparseable or rejected by
\* the schema, a sub-directory that resolves outside the repository), the
\* call returns, and the root and every directory below it was processed
\* exactly once.
C14_TraversalNeverAborts ==
    last.op \in {"check_data", "update_manifests"} =>
        /\ last.raised = None
        /\ {last.visited[i] : i \in DOMAIN last.visited} = TreeDirs
        /\ Len(last.visited) = Cardinality(TreeDirs)

\* C15: check_data returns True when check_data_directory passes on the
\* root and on every directory below it, and False when it fails on one.
C15_CheckDataReturnsVerdict ==
    last.op = "check_data" =>
        (last.ret <=> \A d \in TreeDirs : check_data_directory(fs, d).ret)

\* the names an endpoint lists as files
FileNamesOf(listing) == {f.name : f \in {g \in listing : g.type = "file"}}

\* the instant of the file a listing holds under a name
InstantOf(listing, n) ==
    LET f == CHOOSE g \in listing : g.type = "file" /\ g.name = n
    IN  f.last_modified.clock - f.last_modified.utcoffset

OnBoth == FileNamesOf(endpoints.remote) \cap FileNamesOf(endpoints.local)

Listed(key) == {sync_status.value[key][i] : i \in DOMAIN sync_status.value[key]}

StatusKeys ==
    {"local_only", "remote_only", "up_to_date", "remote_outdated", "local_outdated"}

\* C16: the five lists get_sync_status returns have no path in common and
\* no path twice, and together they hold exactly the names that one
\* listing or the other has as a file; a name listed only as a directory
\* is in none of them.
C16_FiveListsPartitionTheFiles ==
    sync_status.returned =>
        /\ \A k1, k2 \in StatusKeys : k1 # k2 => Listed(k1) \cap Listed(k2) = {}
        /\ \A k \in StatusKeys : Len(sync_status.value[k]) = Cardinality(Listed(k))
        /\ UNION {Listed(k) : k \in StatusKeys}
              = FileNamesOf(endpoints.remote) \cup FileNamesOf(endpoints.local)

\* d is a directory on both endpoints, d/g.csv is on both, f.csv on one
C16_Witness ==
    /\ sync_status.returned
    /\ \E e \in endpoints.remote : e.name = ListedNames[1] /\ e.type = "dir"
    /\ \E e \in endpoints.local : e.name = ListedNames[1] /\ e.type = "dir"
    /\ ListedNames[2] \in OnBoth
    /\ ListedNames[3] \in FileNamesOf(endpoints.remote) \ FileNamesOf(endpoints.local)
    /\ ListedNames[1] \notin UNION {Listed(k) : k \in StatusKeys}

\* C17: a path that both endpoints list as a file is in up_to_date iff the
\* two modification times are the same instant, in remote_outdated iff
\* the time of the remote endpoint is earlier than that of the local one,
\* and in local_outdated iff it is later.
C17_OutdatedSideIsTheOlderOne ==
    sync_status.returned =>
        \A n \in OnBoth :
            LET remote_time == InstantOf(endpoints.remote, n)
                local_time == InstantOf(endpoints.local, n)
            IN  /\ n \in Listed("up_to_date") <=> remote_time = local_time
                /\ n \in Listed("remote_outdated") <=> remote_time < local_time
                /\ n \in Listed("local_outdated") <=> remote_time > local_time

\* C18: local_only is the names the listing of the local endpoint has as
\* a file and the listing of the remote endpoint has not, and remote_only
\* the names only the listing of the remote endpoint has as a file.
C18_OnlyListsNameTheirEndpoint ==
    sync_status.returned =>
        /\ Listed("local_only")
              = FileNamesOf(endpoints.local) \ FileNamesOf(endpoints.remote)
        /\ Listed("remote_only")
              = FileNamesOf(endpoints.remote) \ FileNamesOf(endpoints.local)

\* f.csv is a file of the local endpoint only, d/g.csv of the remote only,
\* and d is a directory on the remote endpoint and a file on the local one
C18_Witness ==
    /\ sync_status.returned
    /\ sync_status.value.local_only = <<ListedNames[1], ListedNames[3]>>
    /\ sync_status.value.remote_only = <<ListedNames[2]>>
    /\ \E e \in endpoints.remote : e.name = ListedNames[1] /\ e.type = "dir"

\* the last poll found the task ACTIVE and not ok
SawUnhealthy == xfer.task_info.status = "ACTIVE" /\ ~xfer.task_info.is_ok

Stopped == xfer.pc \in {"returned", "raised"}

\* cancel_task is called at most once, and only on a tick that found the
\* task ACTIVE and not ok; the function returns False only after it
\* cancelled the task; once the task is cancelled the function has stopped
CancelledOnce ==
    /\ api.cancel_task <= 1
    /\ api.cancel_task = 1 => SawUnhealthy /\ Stopped
    /\ xfer.pc = "returned" /\ ~xfer.ret => api.cancel_task = 1

\* C19 as stated: on the first tick that finds the task ACTIVE and not
\* ok, globus_transfer calls cancel_task once and returns False, it does
\* not raise, and it polls, sleeps and lists transfers no more; on a tick
\* that finds the task healthy cancel_task is not called.
C19_UnhealthyTickCancelsAndReturnsFalse ==
    /\ CancelledOnce
    /\ SawUnhealthy =>
          api.cancel_task = 1 /\ xfer.pc = "returned" /\ ~xfer.ret

\* C19, amended: on the first tick that finds the task ACTIVE and not ok,
\* globus_transfer calls cancel_task once and, from then on, calls no
\* transfer API function and does not sleep; it returns False when the
\* cancel_task call answers and raises RuntimeError when that call fails
\* with TransferAPIError; on a tick that finds the task healthy
\* cancel_task is not called.
C19_UnhealthyTickCancelsAndStops ==
    /\ [](CancelledOnce)
    /\ [](SawUnhealthy =>
            /\ api.cancel_task = 1
            /\ \/ xfer.pc = "returned" /\ ~xfer.ret
               \/ xfer.pc = "raised" /\ xfer.raised = "RuntimeError")
    /\ [][api.cancel_task = 1 => api' = api /\ xfer' = xfer]_vars

\* the task was found queued, then transferring, then faulty on the third
\* tick; it was cancelled and the function returned False
C19_Witness ==
    /\ xfer.pc = "returned"
    /\ ~xfer.ret
    /\ api.cancel_task = 1
    /\ api.get_task = 3
    /\ api.sleep = 2
    /\ api.task_successful_transfers = 0
    /\ xfer.queue_message_emitted
    /\ xfer.n_files_transferred = 1
    /\ SawUnhealthy

\* C20: when no call of the transfer API fails and the function takes
\* each of its steps, a task that has reached SUCCEEDED or FAILED, or
\* that a poll has found ACTIVE and not ok, leads to the function
\* stopping its polls and returning.
C20_PollLoopEnds ==
    (task.status \in {"SUCCEEDED", "FAILED"} \/ SawUnhealthy)
        ~> (xfer.pc = "returned" \/ xfer.raised # None)

\* the non-hidden entries of a directory, other than its manifest, that
\* are not directories
CandidatesAt(d) ==
    {p \in DOMAIN fs :
        /\ Len(p) > 0 /\ Parent(p) = d
        /\ fs[p].kind \notin {"missing", "dir"}
        /\ Name(p) \notin HiddenNames \cup {ManifestName}}

\* C25: populate_manifest on a directory of the repository without a
\* manifest and without candidate files (nothing, or only hidden files
\* and sub-directories) returns "empty" with no file and writes nothing;
\* and neither populate_manifest nor update_manifests leaves a manifest
\* in a directory that had none and has no candidate file.
C25_NoManifestForEmptyDirectory ==
    [][/\ last'.op = "populate_manifest" /\ InRepo /\ ~HasManifest
              /\ CandidateNames = {} =>
                  /\ last'.raised = None
                  /\ last'.status = "empty"
                  /\ last'.files = <<>>
                  /\ fs' = fs
       /\ last'.op \in {"populate_manifest", "update_manifests"} =>
              \A d \in TreeDirs :
                  ~exists(fs, d \o <<ManifestName>>) /\ CandidatesAt(d) = {} =>
                      ~exists(fs', d \o <<ManifestName>>)]_vars

\* update_manifests went through a directory that holds a hidden file and
\* an empty sub-directory, and neither has a manifest
C25_Witness ==
    /\ last.op = "update_manifests"
    /\ last.raised = None
    /\ target = DirA
    /\ Len(last.visited) = 2
    /\ fs[DirA \o <<".hid">>].kind = "file"
    /\ fs[DirA \o <<"sub">>].kind = "dir"
    /\ CandidatesAt(DirA) = {}
    /\ ~exists(fs, DirA \o <<ManifestName>>)
    /\ ~exists(fs, DirA \o <<"sub", ManifestName>>)

\* the text of the manifest has the two keys of a manifest and entries
\* with a name, known keys and, if any, a well-formed url: nothing is
\* asked of which of url and script an entry sets
ManifestTextWellFormed ==
    /\ HasManifest
    /\ fs[TargetManifest].content.yaml = "ok"
    /\ LET data == fs[TargetManifest].content.data
       IN  /\ DOMAIN data = {"directory", "files"}
           /\ \A i \in DOMAIN data.files :
                 LET e == data.files[i]
                 IN  /\ "name" \in DOMAIN e
                     /\ DOMAIN e \subseteq {"name", "url", "script", "md5"}
                     /\ "url" \in DOMAIN e => e.url \in {None, "https://example.org"}

\* the entry of the text sets both url and script, or neither
IncompleteAsWritten(e) ==
    ("url" \in DOMAIN e /\ e.url # None) <=> ("script" \in DOMAIN e /\ e.script # None)

C30_PopulatorAndValidatorAgree ==
    /\ last.op = "populate_manifest"
    /\ last.raised = None
    /\ last.status \in {"created", "updated"}
    /\ ManifestNamesOf(Loaded.manifest) \subseteq CandidateNames
    /\ last.status = "created" \/ ~DirectoryMismatch
    => LET r == check_data_directory(fs, target)
       IN  \A m \in {MsgUnknown, MsgMissing, MsgDirectory} : WithMsg(r.log, m) = <<>>

\* the last poll found the task SUCCEEDED
SawSucceeded == xfer.task_info.status = "SUCCEEDED"

\* C27: once a poll has found the task SUCCEEDED, globus_transfer neither
\* sleeps nor polls again: it lists the successful transfers and, when
\* that call answers, returns True, whether the list is empty, has one
\* entry or has several.
C27_SuccessIsReportedWhateverTheList ==
    SawSucceeded =>
        /\ xfer.pc \in {"report", "returned", "raised"}
        /\ xfer.pc = "returned" => xfer.ret
        /\ xfer.pc = "raised" => xfer.raised = "TransferAPIError"

\* C28: globus_transfer returns True only when its last poll found the
\* task SUCCEEDED and it never called cancel_task; it returns False only
\* in the step in which it calls cancel_task, on a poll that found the
\* task ACTIVE and not ok; cancel_task is called at most once.
C28_OutcomeSoundness ==
    /\ [](api.cancel_task <= 1)
    /\ [](xfer.pc = "returned" /\ xfer.ret =>
            SawSucceeded /\ api.cancel_task = 0)
    /\ [](xfer.pc = "returned" /\ ~xfer.ret =>
            SawUnhealthy /\ api.cancel_task = 1)
    /\ [][xfer'.pc = "returned" /\ ~xfer'.ret /\ xfer.pc # "returned" =>
              /\ api.cancel_task = 0 /\ api'.cancel_task = 1
              /\ task.status = "ACTIVE" /\ ~task.is_ok]_vars

\* True was returned for a task found queued, then transferring, then
\* SUCCEEDED with its one file transferred
C28_Witness ==
    /\ xfer.pc = "returned"
    /\ xfer.ret
    /\ SawSucceeded
    /\ api.cancel_task = 0
    /\ api.get_task = 3
    /\ api.task_successful_transfers = 1
    /\ xfer.queue_message_emitted
    /\ task.files_transferred = 1

\* C21: globus_sync calls the transfer from the remote to the local
\* endpoint first and the transfer from the local to the remote endpoint
\* only after the first returned True: after False or an exception no
\* second transfer is submitted; and it returns True iff both calls
\* returned True.
C21_SecondPassOnlyAfterSuccess ==
    /\ IsPrefix(gsync.calls, <<"remote_to_local", "local_to_remote">>)
    /\ Len(gsync.calls) = 2 => Len(gsync.results) >= 1 /\ gsync.results[1]
    /\ api.submit_transfer <= Len(gsync.calls)
    /\ gsync.pc = "returned" =>
          (gsync.ret <=> /\ Len(gsync.results) = 2
                         /\ gsync.results[1]
                         /\ gsync.results[2])
    /\ gsync.pc = "returned" /\ ~gsync.ret /\ Len(gsync.results) = 1 =>
          ~gsync.results[1] /\ api.submit_transfer = 1
    /\ gsync.pc = "raised" /\ Len(gsync.results) = 0 => api.submit_transfer <= 1

\* the first pass cancelled its task and returned False: globus_sync
\* returned False and one transfer was submitted
C21_Witness ==
    /\ gsync.pc = "returned"
    /\ ~gsync.ret
    /\ gsync.calls = <<"remote_to_local">>
    /\ gsync.results = <<FALSE>>
    /\ api.submit_transfer = 1
    /\ api.cancel_task = 1

\* the call of an API method that raised: the counter of the call grew and
\* neither a task nor a message came of it
ApiCallRaised ==
    /\ xfer.pc \in {"submit", "poll"}
    /\ xfer'.pc \notin {"poll", "sleep", "report", "returned"}
    /\ xfer'.log = xfer.log

\* C29: a TransferAPIError of submit_transfer or of get_task ends the call
\* of globus_transfer with an exception; nothing is cancelled, once the
\* call has raised it makes no further API call, and globus_sync ends
\* with the same exception without calling the second pass.
C29_ApiErrorIsFatal ==
    /\ [][ApiCallRaised =>
            /\ xfer'.pc = "raised"
            /\ xfer'.raised = "RuntimeError"
            /\ api'.cancel_task = api.cancel_task
            /\ api' \in {Counted(api, "submit_transfer"),
                        Counted(api, "get_task")}]_vars
    /\ [][xfer.pc = "raised" =>
            /\ api' = api
            /\ xfer' = xfer
            /\ gsync'.calls = gsync.calls
            /\ gsync' # gsync =>
                  gsync'.pc = "raised" /\ gsync'.raised = xfer.raised]_vars
    /\ [](gsync.pc = "raised" /\ gsync.calls # <<>> =>
            /\ xfer.pc = "raised"
            /\ gsync.raised = xfer.raised
            /\ api.submit_transfer = Len(gsync.calls))

\* the second get_task of the first pass raised: globus_sync raised with
\* one transfer submitted and nothing cancelled
C29_Witness ==
    /\ gsync.pc = "raised"
    /\ gsync.raised = "RuntimeError"
    /\ gsync.calls = <<"remote_to_local">>
    /\ api.submit_transfer = 1
    /\ api.get_task = 2
    /\ api.cancel_task = 0
    /\ api.task_successful_transfers = 0

\* the sequences of at most n names
NameSeqs(n) == UNION {[1..k -> EntryNames] : k \in 0..n}

\* the directories of the endpoint at depth max_depth or less, each by
\* the names that lead to it from the listed root
DirsWithin(max_depth) ==
    {p \in NameSeqs(max_depth) : Lookup(ls.endpoint, p) \in DirIds}

\* the entries of those directories
EntriesWithin(max_depth) ==
    {p \in NameSeqs(max_depth + 1) :
        /\ p # <<>>
        /\ SubSeq(p, 1, Len(p) - 1) \in DirsWithin(max_depth)
        /\ Lookup(ls.endpoint, p) # "absent"}

\* the names joined with "/"
RelativeName(p) ==
    [i \in 1..(2 * Len(p) - 1) |-> IF i % 2 = 1 THEN p[(i + 1) \div 2] ELSE "/"]

\* 2^n
RECURSIVE Pow2(_)
Pow2(n) == IF n = 0 THEN 1 ELSE 2 * Pow2(n - 1)

\* the generator has ended
LsEnded == ls.pc \in {"done", "raised"}

\* C22: recursive_ls ends for every endpoint, also one whose directories
\* lead back to themselves, and every max_depth >= 0: a listing call is
\* made only for a directory at depth max_depth or less, a directory is
\* queued only by the listing of a directory at depth less than
\* max_depth, and the queue becomes empty.
C22_ListingEnds ==
    /\ [](\A i \in 1..Len(ls.listed) :
            /\ ls.listed[i].depth = Len(NamesOf(ls.listed[i].path))
            /\ ls.listed[i].depth <= ls.max_depth
            /\ NamesOf(ls.listed[i].path) \in DirsWithin(ls.max_depth))
    /\ [](\A i \in 1..Len(ls.queue) :
            /\ ls.queue[i].depth = Len(NamesOf(ls.queue[i].abs_path))
            /\ ls.queue[i].depth <= ls.max_depth)
    /\ [](Len(ls.listed) <= Pow2(ls.max_depth + 1) - 1)
    /\ [][ls.queue # <<>> /\ Len(ls'.queue) >= Len(ls.queue) =>
            ls.queue[Len(ls.queue)].depth < ls.max_depth]_vars
    /\ (ls.pc = "called") ~> LsEnded
    /\ [](ls.pc = "done" => ls.queue = <<>>)

\* the root directory is its own entry `a`: with max_depth 2 the listing
\* ended after it was listed at the depths 0, 1 and 2
C22_Witness ==
    /\ ls.pc = "done"
    /\ ls.endpoint["r"]["a"] = "r"
    /\ ls.max_depth = 2
    /\ ls.queue = <<>>
    /\ \E i \in 1..Len(ls.listed) : NamesOf(ls.listed[i].path) = <<"a", "a">>

\* how many elements of the sequence satisfy the test
CountOf(seq, Test(_)) == Len(SelectSeq(seq, Test))

\* C23: when the listing has ended, every directory at depth max_depth
\* or less was listed by exactly one call, and every entry of such a
\* directory, file or directory, was yielded exactly once under its
\* path relative to the root, the names joined with "/"; nothing else
\* was yielded, whatever the order of the entries.
C23_ListingComplete ==
    ls.pc = "done" =>
      /\ \A p \in DirsWithin(ls.max_depth) :
            CountOf(ls.listed, LAMBDA c : NamesOf(c.path) = p) = 1
      /\ Len(ls.listed) = Cardinality(DirsWithin(ls.max_depth))
      /\ ls.call_count = Len(ls.listed)
      /\ \A p \in EntriesWithin(ls.max_depth) :
            CountOf(ls.yielded,
                    LAMBDA item :
                      /\ item.name = RelativeName(p)
                      /\ item.type = IF Lookup(ls.endpoint, p) = "file"
                                     THEN "file" ELSE "dir") = 1
      /\ Len(ls.yielded) = Cardinality(EntriesWithin(ls.max_depth))

\* a tree: `a` of the root is the other directory, which holds the file
\* `b`; with max_depth 1 both were listed and a/b was yielded
C23_Witness ==
    /\ ls.pc = "done"
    /\ ls.max_depth = 1
    /\ ls.endpoint["r"] = [a |-> "s", b |-> "file"]
    /\ ls.endpoint["s"] = [a |-> "absent", b |-> "file"]
    /\ Len(ls.listed) = 2
    /\ \E i \in 1..Len(ls.yielded) :
          ls.yielded[i] = [name |-> <<"a", "/", "b">>, type |-> "file"]

\* C24: ve_data_science_tool_cli returns 0 when the subcommand, configure
\* included, completed, and 1 when the configuration could not be created
\* or loaded.
C24_ZeroForSuccessOneForFailure ==
    /\ cli.outcome = "completed" => cli.pc = "returned" /\ cli.ret = 0
    /\ cli.outcome \in {"not_configured", "not_loaded"} =>
          cli.pc = "returned" /\ cli.ret = 1

====
